---- MODULE Spec2Model ----
(***************************************************************************)
(* A model of multi (src/multi.go): the exec and ssh commands, the runN    *)
(* fan-out/fan-in dispatcher with its buffered error channel, and the      *)
(* format template scanner.                                                *)
(*                                                                         *)
(* Spec        the two commands from argument checking to their return     *)
(* FormatSpec  the pure function format applied to bounded inputs          *)
(***************************************************************************)
EXTENDS Integers, Sequences, FiniteSets, TLC

(* ---- bounds of the model ---- *)
MaxCount == 3
MaxHosts == 3
MaxLines == 3
MaxJobs == 4
MaxLen == 4
MaxTid == 12
MaxArgs == 3
MaxContent == 5
MaxOut == 2

(* ---- program constants ---- *)
\* cli.UintFlag{Name: "count, c", Value: 1}
CountDefault == 1
\* host += ":22"
DefaultPort == 22
\* os.Exit(1) in main
FailExitCode == 1
\* exit status of a Go process ended by a panic
PanicExitCode == 2

VARIABLES
  ctx,        \* the parsed command line: command, number of args, flags
  world,      \* what the command reads: stdin, the host list file, auth material
  pc,         \* position of the command's goroutine
  hosts,      \* sshCommand: hosts
  input,      \* execCommand/sshCommand: input
  count,      \* execCommand/sshCommand: count := ctx.Uint("count")
  runCount,   \* runN: the count argument as passed by the caller
  N,          \* runN: count after reconciliation with len(items)
  items,      \* runN: items after reconciliation
  i,          \* runN: index of the spawn loop
  job,        \* per thread id: "running" | "done" | "panicked" | "killed"
  jobItem,    \* per thread id: the item handed to the goroutine
  jobHost,    \* per thread id: sshCommand closure's host after normalisation
  jobResult,  \* per thread id: what fun(tid, item) returned
  jobCmd,     \* per thread id: the command line the closure built with format
  calls,      \* per thread id: number of times fun was invoked
  errChan,    \* runN: the buffered channel, FIFO
  recvd,      \* runN: index of the receive loop
  outerErrs,  \* runN: outerErrs
  stderr,     \* lines written to os.Stderr by processErrors and main
  printed,    \* processErrors: index of the range loop
  ret,        \* what the command returned to app.Run
  exitCode,   \* exit status of the process, -1 while it runs
  fmtstr, ftid, fitem, retval, fdone,  \* format: arguments, result, applied
  content,    \* readLines: the bytes of the file
  lines,      \* readLines: the returned input
  scanned,    \* readLines, bufio.Scanner version: the returned input
  readDone,   \* readLines: applied
  sctx,       \* ssh closure, later version: flags, hosts, tid, the remote output
  spc,        \* ssh closure: position in the closure
  shost,      \* ssh closure: host
  client,     \* ssh closure: the connection, "none" | "open" | "closed"
  session,    \* ssh closure: the session, "none" | "open" | "closed"
  outPipe,    \* ssh closure: lines of remote stdout not yet read
  errPipe,    \* ssh closure: lines of remote stderr not yet read
  copier,     \* ssh closure: the goroutine copying errPipe
  osStdout,   \* lines written to os.Stdout
  osStderr,   \* lines written to os.Stderr
  sret,       \* ssh closure: the returned error
  alive,      \* the process has not exited
  ectx,       \* exec closure: --quiet, the output and the fate of the process
  epc,        \* exec closure: position of the job's goroutine
  cmd,        \* exec closure: the child process
  cmdStdout,  \* exec closure: lines in the stdout pipe not yet read
  cmdStderr,  \* exec closure: lines in the stderr pipe not yet read
  copyOut,    \* exec closure: the goroutine of io.Copy(os.Stdout, outPipe)
  copyErr,    \* exec closure: the goroutine of io.Copy(os.Stderr, errPipe)
  eret        \* exec closure: the returned error

vars == <<ctx, world, pc, hosts, input, count, runCount, N, items, i, job,
          jobItem, jobHost, jobResult, jobCmd, calls, errChan, recvd, outerErrs,
          stderr, printed, ret, exitCode,
          fmtstr, ftid, fitem, retval, fdone,
          content, lines, scanned, readDone,
          sctx, spc, shost, client, session, outPipe, errPipe, copier,
          osStdout, osStderr, sret, alive,
          ectx, epc, cmd, cmdStdout, cmdStderr, copyOut, copyErr, eret>>

runVars == <<ctx, world, pc, hosts, input, count, runCount, N, items, i, job,
             jobItem, jobHost, jobResult, jobCmd, calls, errChan, recvd,
             outerErrs, stderr, printed, ret, exitCode>>

fmtVars == <<fmtstr, ftid, fitem, retval, fdone>>

readVars == <<content, lines, scanned, readDone>>

sshVars == <<sctx, spc, shost, client, session, outPipe, errPipe, copier,
             osStdout, osStderr, sret, alive>>

execVars == <<ectx, epc, cmd, cmdStdout, cmdStderr, copyOut, copyErr, eret>>

\* what the commands leave alone
otherVars == <<fmtVars, readVars, sshVars, execVars>>

Max(a, b) == IF a > b THEN a ELSE b

(* ---- inputs ---- *)
\* the k-th line of standard input and of the host list file
Line(k) == <<"a", "b", "c", "d", "e">>[k]
\* v6: the name is an IPv6 literal such as ::1, which contains ":"
HostEntry(k) == << [name |-> "h1", port |-> 0, v6 |-> FALSE],
                   [name |-> "h2", port |-> 2222, v6 |-> FALSE],
                   [name |-> "::1", port |-> 0, v6 |-> TRUE],
                   [name |-> "h4", port |-> 22, v6 |-> FALSE] >>[k]

Lines(n) == [k \in 1..n |-> Line(k)]
HostLines(n) == [k \in 1..n |-> HostEntry(k)]

\* values of type error: nil, and the error returned by the executor of thread tid
Nil == [kind |-> "nil", tid |-> 0]
JobErr(tid) == [kind |-> "error", tid |-> tid]
\* a closure that has not yet returned, a host variable not yet assigned
NoResult == [kind |-> "none", tid |-> 0]
NoHost == [name |-> "", port |-> 0, v6 |-> FALSE]

\* a count flag declared without Value: 1
CtxUintCountNoDefault(c) == c.countArg

(* ---- ctx.Uint("count"): the flag's value, its default when not given ---- *)
CtxUintCount(c) == IF c.countSet THEN c.countArg ELSE CountDefault

\* the reconciliation that lets a non-zero count win over the input length
RunNCountFloor(its, cnt) == IF cnt = 0 THEN Len(its) ELSE cnt

(* ---- runN: reconciliation of count and items ---- *)
RunNCount(its, cnt) == IF Len(its) > cnt THEN Len(its) ELSE cnt

RunNItems(its, cnt) ==
  IF Len(its) > cnt THEN its
  ELSE [k \in 1..cnt |-> IF k <= Len(its) THEN its[k] ELSE ""]

\* a receive loop that keeps only the last error
CollectLast(errs, err) == IF err # Nil THEN <<err>> ELSE errs

\* runN's receive loop body: if err != nil { outerErrs = append(outerErrs, err) }
Collect(errs, err) == IF err # Nil THEN Append(errs, err) ELSE errs

\* hosts taken round-robin instead of in blocks of count
HostIndexInterleaved(tid, cnt) == tid % cnt

(* ---- sshCommand closure: host selection ---- *)
HostIndex(tid, cnt) == tid \div cnt

\* strings.Contains(host, ":")
ContainsColon(h) == h.port # 0 \/ h.v6

\* if !strings.Contains(host, ":") { host += ":22" }
Normalize(h) == IF ~ContainsColon(h) THEN [h EXCEPT !.port = DefaultPort] ELSE h

\* hosts[tid/count] panics on division by zero and on an index out of range
HostLookupPanics(tid, cnt, hs) ==
  \/ cnt = 0
  \/ HostIndex(tid, cnt) >= Len(hs)

\* a failure signalled only when several commands failed
ProcessErrorsReturnMany(errs) == IF Len(errs) > 1 THEN "some commands had errors" ELSE "nil"

(* ---- processErrors ---- *)
ProcessErrorsReturn(errs) == IF Len(errs) > 0 THEN "some commands had errors" ELSE "nil"

(* ---- format: strings are sequences of code points ---- *)
Chars == {"%", "t", "i", "a", "z"}

Digit(d) == <<"0", "1", "2", "3", "4", "5", "6", "7", "8", "9">>[d + 1]

\* fmt.Sprintf("%d", tid)
RECURSIVE Sprintfd(_)
Sprintfd(n) == IF n < 10 THEN <<Digit(n)>> ELSE Sprintfd(n \div 10) \o <<Digit(n % 10)>>

\* one iteration of  for _, c := range fmtstr  on the locals (retval, lastPercent)
FormatStep(st, c, tid, item) ==
  IF c = "%"
    THEN IF st.lastPercent
           THEN [retval |-> <<"%">>, lastPercent |-> FALSE]
           ELSE [retval |-> st.retval, lastPercent |-> TRUE]
    ELSE IF st.lastPercent
           THEN [retval |-> CASE c = "t" -> st.retval \o Sprintfd(tid)
                              [] c = "i" -> st.retval \o item
                              [] OTHER -> st.retval,
                 lastPercent |-> FALSE]
           ELSE [retval |-> Append(st.retval, c), lastPercent |-> st.lastPercent]

\* the locals after the first k code points of fmtstr
RECURSIVE FormatLoop(_, _, _, _)
FormatLoop(str, k, tid, item) ==
  IF k = 0 THEN [retval |-> <<>>, lastPercent |-> FALSE]
  ELSE FormatStep(FormatLoop(str, k - 1, tid, item), str[k], tid, item)

format(str, tid, item) == FormatLoop(str, Len(str), tid, item).retval

(* ---- readLines ---- *)
NL == "\n"
FileChars == {"a", " ", NL}

\* index of the first newline of str, 0 when there is none
RECURSIVE IndexNL(_, _)
IndexNL(str, k) ==
  IF k > Len(str) THEN 0
  ELSE IF str[k] = NL THEN k ELSE IndexNL(str, k + 1)

\* strings.Split(str, "\n")
RECURSIVE Split(_)
Split(str) ==
  LET k == IndexNL(str, 1)
  IN IF k = 0 THEN <<str>>
     ELSE <<SubSeq(str, 1, k - 1)>> \o Split(SubSeq(str, k + 1, Len(str)))

\* the split without the check for a trailing newline
readLinesKeepLast(bytes) == Split(bytes)

\* readLines of src/multi.go: split on newlines, drop an empty last element
readLines(bytes) ==
  LET in == Split(bytes)
  IN IF in[Len(in)] = <<>> THEN SubSeq(in, 1, Len(in) - 1) ELSE in

\* strings.TrimSpace on a line
RECURSIVE TrimLeft(_)
TrimLeft(str) ==
  IF str # <<>> /\ Head(str) \in {" ", NL} THEN TrimLeft(Tail(str)) ELSE str

RECURSIVE TrimRight(_)
TrimRight(str) ==
  IF str # <<>> /\ str[Len(str)] \in {" ", NL}
    THEN TrimRight(SubSeq(str, 1, Len(str) - 1)) ELSE str

TrimSpace(str) == TrimRight(TrimLeft(str))

\* the tokens of bufio.ScanLines: the text up to each newline, and what is
\* left at the end of the file when that is not empty
RECURSIVE ScanLines(_)
ScanLines(bytes) ==
  LET k == IndexNL(bytes, 1)
  IN IF bytes = <<>> THEN <<>>
     ELSE IF k = 0 THEN <<bytes>>
     ELSE <<SubSeq(bytes, 1, k - 1)>> \o ScanLines(SubSeq(bytes, k + 1, Len(bytes)))

\* readLines of the later version: every token trimmed; the scanner has read
\* the file to its end, so that ioutil.ReadAll finds nothing left over
readLinesScanner(bytes) ==
  LET toks == ScanLines(bytes)
      leftOver == <<>>
      in == [k \in DOMAIN toks |-> TrimSpace(toks[k])]
  IN IF Len(leftOver) > 0 THEN Append(in, TrimSpace(leftOver)) ELSE in

(* ---- the command line: ctx.Args() ---- *)
\* the templates given after "--"; for ssh the host list file comes first
Template == << <<"e">>, <<"%", "i">>, <<"%", "t">>, <<"a">> >>
ListFileArg == <<"l">>

CtxArgs(c) ==
  IF c.cmd = "ssh"
    THEN IF c.nargs = 0 THEN <<>> ELSE <<ListFileArg>> \o SubSeq(Template, 1, c.nargs - 1)
    ELSE SubSeq(Template, 1, c.nargs)

\* an item of the model as a sequence of code points
Runes(item) == IF item = "" THEN <<>> ELSE <<item>>

\* every argument formatted with the thread id of job 0
ExecArgvTidZero(args, tid, item) ==
  [k \in DOMAIN args |-> format(args[k], 0, Runes(item))]

\* execCommand closure: argv of exec.Command(first, args...)
ExecArgv(args, tid, item) ==
  LET formatted == [k \in DOMAIN args |-> format(args[k], tid, Runes(item))]
      first == formatted[1]
      rest == IF Len(formatted) = 1 THEN <<>> ELSE Tail(formatted)
  IN <<first>> \o rest

\* strings.Join(args, " ")
RECURSIVE Join(_)
Join(args) ==
  IF Len(args) = 0 THEN <<>>
  ELSE IF Len(args) = 1 THEN args[1]
  ELSE args[1] \o <<" ">> \o Join(Tail(args))

\* sshCommand closure: the argument of s.Run
SshCmdLine(args, tid, item) == format(Join(args), tid, Runes(item))

\* make(chan error): no buffer
ChanCapUnbuffered(cnt) == 0

\* make(chan error, count)
ChanCap(cnt) == cnt

\* what main prints for a returned error
RuntimeError == [kind |-> "runtime error", tid |-> 0]

NoJobs == [t \in {} |-> 0]

InitCtx ==
  [cmd : {"exec", "ssh"}, nargs : 0..MaxArgs, inputFlag : BOOLEAN,
   countSet : BOOLEAN, countArg : 0..MaxCount]

InitWorld ==
  [stdin : {Lines(n) : n \in 0..MaxLines}, stdinOK : BOOLEAN,
   listFile : {"ok", "missing", "unreadable"},
   hostLines : {HostLines(n) : n \in 0..MaxHosts}, authOK : BOOLEAN]

RunInit ==
  /\ ctx \in InitCtx
  /\ world \in InitWorld
  /\ ~ctx.countSet => ctx.countArg = 0
  \* what a command does not read is left out of the enumeration
  /\ ~ctx.inputFlag => (world.stdin = <<>> /\ world.stdinOK)
  /\ ctx.cmd = "exec" => (world.listFile = "ok" /\ world.hostLines = <<>> /\ world.authOK)
  /\ world.listFile # "ok" => world.hostLines = <<>>
  /\ Max(CtxUintCount(ctx) * Len(world.hostLines), Len(world.stdin)) <= MaxJobs
  /\ CtxUintCount(ctx) <= MaxJobs
  /\ pc = "start"
  /\ hosts = <<>> /\ input = <<>> /\ count = 0 /\ runCount = 0
  /\ N = 0 /\ items = <<>> /\ i = 0
  /\ job = NoJobs /\ jobItem = NoJobs /\ jobHost = NoJobs /\ jobResult = NoJobs
  /\ jobCmd = NoJobs /\ calls = NoJobs
  /\ errChan = <<>> /\ recvd = 0 /\ outerErrs = <<>>
  /\ stderr = <<>> /\ printed = 0 /\ ret = "none" /\ exitCode = -1

FmtIdle ==
  /\ fmtstr = <<>> /\ ftid = 0 /\ fitem = <<>> /\ retval = <<>> /\ fdone = FALSE

ReadIdle ==
  /\ content = <<>> /\ lines = <<>> /\ scanned = <<>> /\ readDone = FALSE

SshIdle ==
  /\ sctx = [quiet |-> FALSE, noPrefix |-> FALSE, hosts |-> <<>>, tid |-> 0,
             nout |-> 0, nerr |-> 0]
  /\ spc = "idle" /\ shost = NoHost /\ client = "none" /\ session = "none"
  /\ outPipe = <<>> /\ errPipe = <<>> /\ copier = "none"
  /\ osStdout = <<>> /\ osStderr = <<>> /\ sret = NoResult /\ alive = TRUE

\* no copy goroutine: none has been started
NoCopy == [st |-> "none", buf |-> ""]

ExecIdle ==
  /\ ectx = [quiet |-> FALSE, nout |-> 0, nerr |-> 0, startOK |-> TRUE,
             pipesOK |-> TRUE, status |-> 0]
  /\ epc = "idle" /\ cmd = "none" /\ cmdStdout = <<>> /\ cmdStderr = <<>>
  /\ copyOut = NoCopy /\ copyErr = NoCopy /\ eret = NoResult

Init == RunInit /\ FmtIdle /\ ReadIdle /\ SshIdle /\ ExecIdle

(* ---- runN entry: called with (its, cnt) ---- *)
EnterRunN(its, cnt) ==
  /\ runCount' = cnt
  /\ N' = RunNCount(its, cnt)
  /\ items' = RunNItems(its, cnt)
  /\ i' = 0 /\ recvd' = 0 /\ errChan' = <<>> /\ outerErrs' = <<>>
  /\ pc' = "runN" /\ ret' = ret

ConfigError(msg) ==
  /\ pc' = "exit" /\ ret' = msg
  /\ UNCHANGED <<hosts, input, count, runCount, N, items, i, errChan, recvd, outerErrs>>

(* ---- execCommand up to the call of runN ---- *)
ExecCommand ==
  /\ pc = "start" /\ ctx.cmd = "exec"
  /\ IF ctx.nargs = 0
       THEN ConfigError("must supply a command to run")
     ELSE IF ctx.inputFlag /\ ~world.stdinOK
       THEN ConfigError("could not read from stdin")
     ELSE /\ input' = IF ctx.inputFlag THEN world.stdin ELSE <<>>
          /\ count' = CtxUintCount(ctx)
          /\ hosts' = hosts
          /\ EnterRunN(input', count')
  /\ UNCHANGED <<ctx, world, job, jobItem, jobHost, jobResult, jobCmd, calls,
                 stderr, printed, exitCode>>
  /\ UNCHANGED otherVars

(* ---- sshCommand up to the call of runN ---- *)
SshCommand ==
  /\ pc = "start" /\ ctx.cmd = "ssh"
  /\ IF ctx.nargs < 2
       THEN ConfigError("must supply a host list file and command to run")
     ELSE IF world.listFile = "missing"
       THEN ConfigError("could not open host list file")
     \* the error of readLines(f) is wrapped and discarded: hosts stays nil
     ELSE IF ctx.inputFlag /\ ~world.stdinOK
       THEN ConfigError("while reading from stdin")
     ELSE IF ~world.authOK
       THEN ConfigError("auth setup failed")
     ELSE /\ hosts' = IF world.listFile = "ok" THEN world.hostLines ELSE <<>>
          /\ input' = IF ctx.inputFlag THEN world.stdin ELSE <<>>
          /\ count' = CtxUintCount(ctx)
          /\ EnterRunN(input', count' * Len(hosts'))
  /\ UNCHANGED <<ctx, world, job, jobItem, jobHost, jobResult, jobCmd, calls,
                 stderr, printed, exitCode>>
  /\ UNCHANGED otherVars

(* ---- runN: go func(tid, item) { ... }(i, items[i]) ---- *)
Spawn ==
  /\ pc = "runN" /\ i < N
  /\ job' = [t \in 0..i |-> IF t = i THEN "running" ELSE job[t]]
  /\ jobItem' = [t \in 0..i |-> IF t = i THEN items[i + 1] ELSE jobItem[t]]
  /\ jobHost' = [t \in 0..i |-> IF t = i THEN NoHost ELSE jobHost[t]]
  /\ jobResult' = [t \in 0..i |-> IF t = i THEN NoResult ELSE jobResult[t]]
  /\ jobCmd' = [t \in 0..i |-> IF t = i THEN <<>> ELSE jobCmd[t]]
  /\ calls' = [t \in 0..i |-> IF t = i THEN 0 ELSE calls[t]]
  /\ i' = i + 1
  /\ UNCHANGED <<ctx, world, pc, hosts, input, count, runCount, N, items,
                 errChan, recvd, outerErrs, stderr, printed, ret, exitCode>>
  /\ UNCHANGED otherVars

\* a goroutine whose closure returns nil sends nothing
SendOnlyErrors(tid, err) ==
  /\ Len(errChan) < ChanCap(N)
  /\ errChan' = IF err = Nil THEN errChan ELSE Append(errChan, err)
  /\ job' = [job EXCEPT ![tid] = "done"]
  /\ jobResult' = [jobResult EXCEPT ![tid] = err]
  /\ pc' = pc

\* errChan <- fun(tid, item): blocks while the channel is full
Send(tid, err) ==
  /\ Len(errChan) < ChanCap(N)
  /\ errChan' = Append(errChan, err)
  /\ job' = [job EXCEPT ![tid] = "done"]
  /\ jobResult' = [jobResult EXCEPT ![tid] = err]
  /\ pc' = pc

(* ---- the executor of execCommand: builds argv, runs the process ---- *)
ExecJob(tid) ==
  /\ pc \in {"runN", "returned", "exit"} /\ ctx.cmd = "exec"
  /\ tid \in DOMAIN job /\ job[tid] = "running"
  /\ calls' = [calls EXCEPT ![tid] = @ + 1]
  /\ jobCmd' = [jobCmd EXCEPT ![tid] = ExecArgv(CtxArgs(ctx), tid, jobItem[tid])]
  /\ \E err \in {Nil, JobErr(tid)} : Send(tid, err)
  /\ UNCHANGED <<ctx, world, hosts, input, count, runCount, N, items, i,
                 jobItem, jobHost, recvd, outerErrs, stderr, printed, ret, exitCode>>
  /\ UNCHANGED otherVars

(* ---- the executor of sshCommand ---- *)
SshJob(tid) ==
  /\ pc \in {"runN", "returned", "exit"} /\ ctx.cmd = "ssh"
  /\ tid \in DOMAIN job /\ job[tid] = "running"
  /\ calls' = [calls EXCEPT ![tid] = @ + 1]
  /\ IF HostLookupPanics(tid, count, hosts)
       THEN \* a panic in a goroutine without recover ends the process and
            \* with it every other goroutine
            /\ pc' = "crashed" /\ exitCode' = PanicExitCode
            /\ job' = [t \in DOMAIN job |->
                         IF t = tid THEN "panicked"
                         ELSE IF job[t] = "running" THEN "killed" ELSE job[t]]
            /\ UNCHANGED <<jobHost, jobResult, jobCmd, errChan>>
       ELSE /\ jobHost' = [jobHost EXCEPT ![tid] = Normalize(hosts[HostIndex(tid, count) + 1])]
            /\ jobCmd' = [jobCmd EXCEPT ![tid] = SshCmdLine(Tail(CtxArgs(ctx)), tid, jobItem[tid])]
            /\ \E err \in {Nil, JobErr(tid)} : Send(tid, err)
            /\ exitCode' = exitCode
  /\ UNCHANGED <<ctx, world, hosts, input, count, runCount, N, items, i,
                 jobItem, recvd, outerErrs, stderr, printed, ret>>
  /\ UNCHANGED otherVars

(* ---- runN: err := <-errChan in the receive loop ---- *)
Receive ==
  /\ pc = "runN" /\ i = N /\ recvd < N
  /\ errChan # <<>>
  /\ outerErrs' = Collect(outerErrs, Head(errChan))
  /\ errChan' = Tail(errChan)
  /\ recvd' = recvd + 1
  /\ UNCHANGED <<ctx, world, pc, hosts, input, count, runCount, N, items, i,
                 job, jobItem, jobHost, jobResult, jobCmd, calls, stderr,
                 printed, ret, exitCode>>
  /\ UNCHANGED otherVars

(* ---- runN: return outerErrs ---- *)
RunNReturn ==
  /\ pc = "runN" /\ i = N /\ recvd = N
  /\ pc' = "returned"
  /\ UNCHANGED <<ctx, world, hosts, input, count, runCount, N, items, i,
                 job, jobItem, jobHost, jobResult, jobCmd, calls, errChan,
                 recvd, outerErrs, stderr, printed, ret, exitCode>>
  /\ UNCHANGED otherVars

(* ---- processErrors: fmt.Fprintf(os.Stderr, err.Error()+"\n") for one err ---- *)
PrintError ==
  /\ pc = "returned" /\ printed < Len(outerErrs)
  /\ stderr' = Append(stderr, outerErrs[printed + 1])
  /\ printed' = printed + 1
  /\ UNCHANGED <<ctx, world, pc, hosts, input, count, runCount, N, items, i,
                 job, jobItem, jobHost, jobResult, jobCmd, calls, errChan,
                 recvd, outerErrs, ret, exitCode>>
  /\ UNCHANGED otherVars

(* ---- processErrors: the return after the range loop ---- *)
ProcessErrors ==
  /\ pc = "returned" /\ printed = Len(outerErrs)
  /\ ret' = ProcessErrorsReturn(outerErrs)
  /\ pc' = "exit"
  /\ UNCHANGED <<ctx, world, hosts, input, count, runCount, N, items, i,
                 job, jobItem, jobHost, jobResult, jobCmd, calls, errChan,
                 recvd, outerErrs, stderr, printed, exitCode>>
  /\ UNCHANGED otherVars

(* ---- main: if err := app.Run(os.Args); err != nil { print; os.Exit(1) } ---- *)
Main ==
  /\ pc = "exit" /\ exitCode = -1
  /\ IF ret # "nil"
       THEN stderr' = Append(stderr, RuntimeError) /\ exitCode' = FailExitCode
       ELSE stderr' = stderr /\ exitCode' = 0
  /\ UNCHANGED <<ctx, world, pc, hosts, input, count, runCount, N, items, i,
                 job, jobItem, jobHost, jobResult, jobCmd, calls, errChan,
                 recvd, outerErrs, printed, ret>>
  /\ UNCHANGED otherVars

Next ==
  \/ ExecCommand
  \/ SshCommand
  \/ Spawn
  \/ \E tid \in 0..(MaxJobs - 1) : ExecJob(tid)
  \/ \E tid \in 0..(MaxJobs - 1) : SshJob(tid)
  \/ Receive
  \/ RunNReturn
  \/ PrintError
  \/ ProcessErrors
  \/ Main

Spec == Init /\ [][Next]_vars

\* a goroutine that can take a step is scheduled and every call of the
\* executor ends: the program does not stop while a step is possible
Fairness == WF_vars(Next)

\* the runs with the shortest command line: the arguments of the command do
\* not bear on what runN does
FairInit == Init /\ ctx.nargs = (IF ctx.cmd = "ssh" THEN 2 ELSE 1)

FairSpec == FairInit /\ [][Next]_vars /\ Fairness

(* ---- format applied to bounded arguments ---- *)
RECURSIVE StringsUpTo(_)
StringsUpTo(n) ==
  IF n = 0 THEN {<<>>}
  ELSE LET shorter == StringsUpTo(n - 1)
       IN shorter \cup {Append(str, c) : str \in shorter, c \in Chars}

FormatTids == {0, 3, MaxTid}
FormatItems == {<<>>, <<"x">>, <<"%", "t">>}

RunIdle ==
  /\ ctx = [cmd |-> "exec", nargs |-> 1, inputFlag |-> FALSE,
            countSet |-> FALSE, countArg |-> 0]
  /\ world = [stdin |-> <<>>, stdinOK |-> TRUE, listFile |-> "ok",
              hostLines |-> <<>>, authOK |-> TRUE]
  /\ pc = "format"
  /\ hosts = <<>> /\ input = <<>> /\ count = 0 /\ runCount = 0
  /\ N = 0 /\ items = <<>> /\ i = 0
  /\ job = NoJobs /\ jobItem = NoJobs /\ jobHost = NoJobs /\ jobResult = NoJobs
  /\ jobCmd = NoJobs /\ calls = NoJobs
  /\ errChan = <<>> /\ recvd = 0 /\ outerErrs = <<>>
  /\ stderr = <<>> /\ printed = 0 /\ ret = "none" /\ exitCode = -1

FormatInit ==
  /\ RunIdle /\ ReadIdle /\ SshIdle /\ ExecIdle
  /\ fmtstr \in StringsUpTo(MaxLen)
  /\ ftid \in FormatTids
  /\ fitem \in FormatItems
  /\ retval = <<>> /\ fdone = FALSE

ApplyFormat ==
  /\ ~fdone
  /\ retval' = format(fmtstr, ftid, fitem)
  /\ fdone' = TRUE
  /\ UNCHANGED <<fmtstr, ftid, fitem>>
  /\ UNCHANGED <<runVars, readVars, sshVars, execVars>>

FormatNext == ApplyFormat

FormatSpec == FormatInit /\ [][FormatNext]_vars

(* ---- readLines applied to bounded file contents ---- *)
RECURSIVE FilesUpTo(_)
FilesUpTo(n) ==
  IF n = 0 THEN {<<>>}
  ELSE LET shorter == FilesUpTo(n - 1)
       IN shorter \cup {Append(str, c) : str \in shorter, c \in FileChars}

ReadInit ==
  /\ RunIdle /\ FmtIdle /\ SshIdle /\ ExecIdle
  /\ content \in FilesUpTo(MaxContent)
  /\ lines = <<>> /\ scanned = <<>> /\ readDone = FALSE

ApplyReadLines ==
  /\ ~readDone
  /\ lines' = readLines(content)
  /\ scanned' = readLinesScanner(content)
  /\ readDone' = TRUE
  /\ UNCHANGED content
  /\ UNCHANGED <<runVars, fmtVars, sshVars, execVars>>

ReadNext == ApplyReadLines

ReadSpec == ReadInit /\ [][ReadNext]_vars

(* ---- the closure of sshCommand in the later version, for one job ---- *)
\* the k-th line the remote command writes to its stdout and to its stderr
OutText(k) == <<"o1", "o2", "o3">>[k]
ErrText(k) == <<"e1", "e2", "e3">>[k]

\* a copy that writes the line without the host
PrefixLineBare(host, text) == [prefix |-> NoHost, text |-> text]

\* prefixCopy: fmt.Fprintf(w, "[%v] %s\n", host, s.Text())
PrefixLine(host, text) == [prefix |-> host, text |-> text]

\* io.Copy: the line as it is
CopyLine(text) == [prefix |-> NoHost, text |-> text]

\* the line as the closure's copy writes it
Written(text) ==
  IF sctx.noPrefix THEN CopyLine(text) ELSE PrefixLine(shost, text)

SshInit ==
  /\ RunIdle /\ FmtIdle /\ ReadIdle /\ ExecIdle
  /\ sctx \in [quiet : BOOLEAN, noPrefix : BOOLEAN,
               hosts : {HostLines(n) : n \in 1..MaxHosts}, tid : 0..(MaxHosts - 1),
               nout : 0..MaxOut, nerr : 0..MaxOut]
  /\ sctx.tid < Len(sctx.hosts)
  /\ spc = "dial" /\ shost = NoHost /\ client = "none" /\ session = "none"
  /\ outPipe = <<>> /\ errPipe = <<>> /\ copier = "none"
  /\ osStdout = <<>> /\ osStderr = <<>> /\ sret = NoResult /\ alive = TRUE

\* a return that closes only after a successful run
SshReturnLeaksOnError(err) ==
  /\ sret' = err
  /\ spc' = "done"
  /\ session' = IF session = "open" /\ err = Nil THEN "closed" ELSE session
  /\ client' = IF client = "open" /\ err = Nil THEN "closed" ELSE client

\* return err, with the deferred s.Close() and client.Close()
SshReturn(err) ==
  /\ sret' = err
  /\ spc' = "done"
  /\ session' = IF session = "open" THEN "closed" ELSE session
  /\ client' = IF client = "open" THEN "closed" ELSE client

\* host := hosts[tid/count], the default port, ssh.Dial
SshDial ==
  /\ alive /\ spc = "dial"
  /\ shost' = Normalize(sctx.hosts[HostIndex(sctx.tid, CountDefault) + 1])
  /\ \/ /\ client' = "open" /\ spc' = "session"
        /\ UNCHANGED <<session, sret>>
     \/ SshReturn(JobErr(sctx.tid))
  /\ UNCHANGED <<sctx, outPipe, errPipe, copier, osStdout, osStderr, alive>>
  /\ UNCHANGED <<runVars, fmtVars, readVars, execVars>>

\* client.NewSession()
SshNewSession ==
  /\ alive /\ spc = "session"
  /\ \/ /\ session' = "open" /\ spc' = "pipes"
        /\ UNCHANGED <<client, sret>>
     \/ SshReturn(JobErr(sctx.tid))
  /\ UNCHANGED <<sctx, shost, outPipe, errPipe, copier, osStdout, osStderr, alive>>
  /\ UNCHANGED <<runVars, fmtVars, readVars, execVars>>

\* if doCopy { s.StdoutPipe(); s.StderrPipe() }
SshPipes ==
  /\ alive /\ spc = "pipes"
  /\ \/ /\ spc' = "start"
        /\ outPipe' = IF sctx.quiet THEN <<>> ELSE [k \in 1..sctx.nout |-> OutText(k)]
        /\ errPipe' = IF sctx.quiet THEN <<>> ELSE [k \in 1..sctx.nerr |-> ErrText(k)]
        /\ UNCHANGED <<client, session, sret>>
     \/ /\ ~sctx.quiet
        /\ SshReturn(JobErr(sctx.tid))
        /\ UNCHANGED <<outPipe, errPipe>>
  /\ UNCHANGED <<sctx, shost, copier, osStdout, osStderr, alive>>
  /\ UNCHANGED <<runVars, fmtVars, readVars, execVars>>

\* s.Start(...), then go prefixCopy / go io.Copy for errPipe
SshStart ==
  /\ alive /\ spc = "start"
  /\ \/ /\ spc' = IF sctx.quiet THEN "wait" ELSE "copy"
        /\ copier' = IF sctx.quiet THEN copier ELSE "running"
        /\ UNCHANGED <<client, session, sret>>
     \/ /\ SshReturn(JobErr(sctx.tid))
        /\ UNCHANGED copier
  /\ UNCHANGED <<sctx, shost, outPipe, errPipe, osStdout, osStderr, alive>>
  /\ UNCHANGED <<runVars, fmtVars, readVars, execVars>>

\* one line of prefixCopy(host, os.Stdout, outPipe) / io.Copy(os.Stdout, outPipe)
SshCopyOut ==
  /\ alive /\ spc = "copy" /\ outPipe # <<>>
  /\ osStdout' = Append(osStdout, Written(Head(outPipe)))
  /\ outPipe' = Tail(outPipe)
  /\ UNCHANGED <<sctx, spc, shost, client, session, errPipe, copier, osStderr,
                 sret, alive>>
  /\ UNCHANGED <<runVars, fmtVars, readVars, execVars>>

\* the copy of outPipe reaches the end of the stream
SshCopyOutEnd ==
  /\ alive /\ spc = "copy" /\ outPipe = <<>>
  /\ spc' = "wait"
  /\ UNCHANGED <<sctx, shost, client, session, outPipe, errPipe, copier,
                 osStdout, osStderr, sret, alive>>
  /\ UNCHANGED <<runVars, fmtVars, readVars, execVars>>

\* one line of the goroutine copying errPipe to os.Stderr
SshCopyErr ==
  /\ alive /\ copier = "running" /\ errPipe # <<>>
  /\ osStderr' = Append(osStderr, Written(Head(errPipe)))
  /\ errPipe' = Tail(errPipe)
  /\ UNCHANGED <<sctx, spc, shost, client, session, outPipe, copier, osStdout,
                 sret, alive>>
  /\ UNCHANGED <<runVars, fmtVars, readVars, execVars>>

\* the goroutine copying errPipe reaches the end of the stream
SshCopyErrEnd ==
  /\ alive /\ copier = "running" /\ errPipe = <<>>
  /\ copier' = "finished"
  /\ UNCHANGED <<sctx, spc, shost, client, session, outPipe, errPipe, osStdout,
                 osStderr, sret, alive>>
  /\ UNCHANGED <<runVars, fmtVars, readVars, execVars>>

\* return s.Wait()
SshWait ==
  /\ alive /\ spc = "wait"
  /\ \E err \in {Nil, JobErr(sctx.tid)} : SshReturn(err)
  /\ UNCHANGED <<sctx, shost, outPipe, errPipe, copier, osStdout, osStderr, alive>>
  /\ UNCHANGED <<runVars, fmtVars, readVars, execVars>>

\* the closure has returned, runN and main finish: the process exits and
\* takes the goroutines still running with it
SshExit ==
  /\ alive /\ spc = "done"
  /\ alive' = FALSE
  /\ UNCHANGED <<sctx, spc, shost, client, session, outPipe, errPipe, copier,
                 osStdout, osStderr, sret>>
  /\ UNCHANGED <<runVars, fmtVars, readVars, execVars>>

SshNext ==
  \/ SshDial
  \/ SshNewSession
  \/ SshPipes
  \/ SshStart
  \/ SshCopyOut
  \/ SshCopyOutEnd
  \/ SshCopyErr
  \/ SshCopyErrEnd
  \/ SshWait
  \/ SshExit

SshSpec == SshInit /\ [][SshNext]_vars

(* ---- the closure of execCommand for one job, with its two copy goroutines ---- *)
\* the variables of the ssh closure, which the exec closure leaves alone
sshClosure == <<sctx, spc, shost, client, session, outPipe, errPipe, copier, sret>>

\* a copy goroutine that has been started and is about to read
Reading == [st |-> "read", buf |-> ""]

ExecInit ==
  /\ RunIdle /\ FmtIdle /\ ReadIdle /\ SshIdle
  /\ ectx \in [quiet : BOOLEAN, nout : 0..MaxOut, nerr : 0..MaxOut,
               pipesOK : BOOLEAN, startOK : BOOLEAN, status : {0, 1}]
  /\ epc = "pipes" /\ cmd = "none" /\ cmdStdout = <<>> /\ cmdStderr = <<>>
  /\ copyOut = NoCopy /\ copyErr = NoCopy /\ eret = NoResult

\* the closure returns err
ExecReturn(err) ==
  /\ eret' = err
  /\ epc' = "ret"

\* cmd.Wait has closed the read ends of the pipes (so has a failed cmd.Start)
PipesClosed == epc \in {"ret", "sent", "reported"}

\* if !quiet { cmd.StdoutPipe(); cmd.StderrPipe(); go io.Copy; go io.Copy }
ExecPipes ==
  /\ alive /\ epc = "pipes"
  /\ \/ /\ ectx.quiet
        /\ epc' = "run"
        /\ UNCHANGED <<copyOut, copyErr, eret>>
     \/ /\ ~ectx.quiet /\ ectx.pipesOK
        /\ epc' = "run"
        /\ copyOut' = Reading /\ copyErr' = Reading
        /\ UNCHANGED eret
     \/ /\ ~ectx.quiet /\ ~ectx.pipesOK
        /\ ExecReturn(JobErr(0))
        /\ UNCHANGED <<copyOut, copyErr>>
  /\ UNCHANGED <<ectx, cmd, cmdStdout, cmdStderr>>
  /\ UNCHANGED <<runVars, fmtVars, readVars, sshVars>>

\* cmd.Run, first half: cmd.Start; the process writes its output, which fits
\* into the pipes
ExecStart ==
  /\ alive /\ epc = "run" /\ cmd = "none"
  /\ \/ /\ ectx.startOK
        /\ cmd' = "running"
        /\ cmdStdout' = IF ectx.quiet THEN <<>> ELSE [k \in 1..ectx.nout |-> OutText(k)]
        /\ cmdStderr' = IF ectx.quiet THEN <<>> ELSE [k \in 1..ectx.nerr |-> ErrText(k)]
        /\ UNCHANGED <<epc, eret>>
     \/ /\ ~ectx.startOK
        /\ cmd' = "failed"
        /\ ExecReturn(JobErr(0))
        /\ UNCHANGED <<cmdStdout, cmdStderr>>
  /\ UNCHANGED <<ectx, copyOut, copyErr>>
  /\ UNCHANGED <<runVars, fmtVars, readVars, sshVars>>

\* the child process exits: the write ends of the pipes are closed
ExecProcessExits ==
  /\ alive /\ cmd = "running"
  /\ cmd' = "exited"
  /\ UNCHANGED <<ectx, epc, cmdStdout, cmdStderr, copyOut, copyErr, eret>>
  /\ UNCHANGED <<runVars, fmtVars, readVars, sshVars>>

\* cmd.Run, second half: cmd.Wait sees the exit, closes the pipes and returns
ExecWait ==
  /\ alive /\ epc = "run" /\ cmd = "exited"
  /\ cmd' = "waited"
  /\ ExecReturn(IF ectx.status = 0 THEN Nil ELSE JobErr(0))
  /\ UNCHANGED <<ectx, cmdStdout, cmdStderr, copyOut, copyErr>>
  /\ UNCHANGED <<runVars, fmtVars, readVars, sshVars>>

\* errChan <- fun(tid, item) in the goroutine of runN
ExecSend ==
  /\ alive /\ epc = "ret"
  /\ epc' = "sent"
  /\ UNCHANGED <<ectx, cmd, cmdStdout, cmdStderr, copyOut, copyErr, eret>>
  /\ UNCHANGED <<runVars, fmtVars, readVars, sshVars>>

\* runN returns, processErrors reports, main ends: the process exits and
\* takes the goroutines still running with it
ExecReport ==
  /\ alive /\ epc = "sent"
  /\ epc' = "reported"
  /\ alive' = FALSE
  /\ UNCHANGED <<ectx, cmd, cmdStdout, cmdStderr, copyOut, copyErr, eret>>
  /\ UNCHANGED <<osStdout, osStderr, sshClosure>>
  /\ UNCHANGED <<runVars, fmtVars, readVars>>

\* io.Copy, src.Read: an error on a closed pipe, the next line, or end of
\* stream once the process has exited; blocks otherwise
CanRead(pipe) == PipesClosed \/ pipe # <<>> \/ cmd \in {"exited", "waited"}

AfterRead(pipe) ==
  IF PipesClosed \/ pipe = <<>> THEN [st |-> "finished", buf |-> ""]
  ELSE [st |-> "write", buf |-> Head(pipe)]

Rest(pipe) == IF PipesClosed \/ pipe = <<>> THEN pipe ELSE Tail(pipe)

\* go io.Copy(os.Stdout, outPipe): one Read
ExecCopyOutRead ==
  /\ alive /\ copyOut.st = "read" /\ CanRead(cmdStdout)
  /\ copyOut' = AfterRead(cmdStdout)
  /\ cmdStdout' = Rest(cmdStdout)
  /\ UNCHANGED <<ectx, epc, cmd, cmdStderr, copyErr, eret>>
  /\ UNCHANGED <<runVars, fmtVars, readVars, sshVars>>

\* go io.Copy(os.Stdout, outPipe): one Write
ExecCopyOutWrite ==
  /\ alive /\ copyOut.st = "write"
  /\ osStdout' = Append(osStdout, CopyLine(copyOut.buf))
  /\ copyOut' = Reading
  /\ UNCHANGED <<ectx, epc, cmd, cmdStdout, cmdStderr, copyErr, eret>>
  /\ UNCHANGED <<osStderr, alive, sshClosure>>
  /\ UNCHANGED <<runVars, fmtVars, readVars>>

\* go io.Copy(os.Stderr, errPipe): one Read
ExecCopyErrRead ==
  /\ alive /\ copyErr.st = "read" /\ CanRead(cmdStderr)
  /\ copyErr' = AfterRead(cmdStderr)
  /\ cmdStderr' = Rest(cmdStderr)
  /\ UNCHANGED <<ectx, epc, cmd, cmdStdout, copyOut, eret>>
  /\ UNCHANGED <<runVars, fmtVars, readVars, sshVars>>

\* go io.Copy(os.Stderr, errPipe): one Write
ExecCopyErrWrite ==
  /\ alive /\ copyErr.st = "write"
  /\ osStderr' = Append(osStderr, CopyLine(copyErr.buf))
  /\ copyErr' = Reading
  /\ UNCHANGED <<ectx, epc, cmd, cmdStdout, cmdStderr, copyOut, eret>>
  /\ UNCHANGED <<osStdout, alive, sshClosure>>
  /\ UNCHANGED <<runVars, fmtVars, readVars>>

ExecNext ==
  \/ ExecPipes
  \/ ExecStart
  \/ ExecProcessExits
  \/ ExecWait
  \/ ExecSend
  \/ ExecReport
  \/ ExecCopyOutRead
  \/ ExecCopyOutWrite
  \/ ExecCopyErrRead
  \/ ExecCopyErrWrite

ExecSpec == ExecInit /\ [][ExecNext]_vars

(***************************************************************************)
(* Properties of the commands and of runN, checked under Spec              *)
(***************************************************************************)
RunNEntered ==
  \/ pc \in {"runN", "returned", "crashed"}
  \/ pc = "exit" /\ ret \in {"nil", "some commands had errors"}

RunNReturned == pc = "returned" \/ (pc = "exit" /\ RunNEntered)

Occurrences(seq, v) == Cardinality({k \in DOMAIN seq : seq[k] = v})

Failed == {t \in DOMAIN jobResult : jobResult[t].kind = "error"}

\* C1: when runN has returned, every one of the N executor calls has
\* returned, and the returned list holds the error of each failing job exactly
\* once and nothing else, whatever the order of completion.
C1_RunNCollectsEveryError ==
  RunNReturned =>
    /\ DOMAIN job = 0..(N - 1)
    /\ \A t \in 0..(N - 1) :
         /\ job[t] = "done"
         /\ jobResult[t] \in {Nil, JobErr(t)}
         /\ Occurrences(outerErrs, JobErr(t)) = IF jobResult[t] = JobErr(t) THEN 1 ELSE 0
    /\ Len(outerErrs) = Cardinality(Failed)

\* three jobs or more, some failed and some not, errors collected out of tid order
C1_Witness ==
  /\ RunNReturned /\ N >= 3
  /\ Cardinality(Failed) >= 2 /\ Cardinality(Failed) < N
  /\ Len(outerErrs) >= 2 /\ outerErrs[1].tid > outerErrs[2].tid

\* C2: a panicking executor is turned into an error result: every job that
\* stopped running has delivered a result to the dispatcher and the run is
\* never aborted.
C2_PanicBecomesError ==
  /\ pc # "crashed"
  /\ \A t \in DOMAIN job : job[t] # "running" => (job[t] = "done" /\ jobResult[t] # NoResult)

\* C3: with input mode enabled runN runs max(count, len(input)) jobs, and job
\* i gets input[i] when there is such a line and the empty string otherwise.
C3_InputReconciled ==
  (ctx.inputFlag /\ RunNEntered) =>
    /\ N = Max(runCount, Len(input))
    /\ DOMAIN job \subseteq 0..(N - 1)
    /\ RunNReturned => DOMAIN job = 0..(N - 1)
    /\ \A t \in DOMAIN job :
         jobItem[t] = IF t < Len(input) THEN input[t + 1] ELSE ""

\* count 3 and two input lines: three jobs with items a, b and the empty string
C3_Witness ==
  /\ ctx.inputFlag /\ pc = "exit" /\ runCount = 3 /\ Len(input) = 2
  /\ DOMAIN job = 0..2
  /\ jobItem[0] = "a" /\ jobItem[1] = "b" /\ jobItem[2] = ""

LocalNoInput == ctx.cmd = "exec" /\ ~ctx.inputFlag /\ RunNEntered

\* C4 as stated: without input mode the exec command runs count jobs, and one
\* job when the count is 0 (0 read as "unspecified"); every item is empty.
C4_ZeroCountMeansOne ==
  LocalNoInput =>
    /\ N = IF ctx.countArg = 0 THEN 1 ELSE ctx.countArg
    /\ \A t \in DOMAIN job : jobItem[t] = ""

\* C4 amended: without input mode the exec command runs as many jobs as the
\* count flag says, 1 when the flag is not given and none when it is given as
\* 0; every item is empty.
C4_CountFlagOrDefault ==
  LocalNoInput =>
    /\ N = IF ctx.countSet THEN ctx.countArg ELSE 1
    /\ RunNReturned => DOMAIN job = 0..(N - 1)
    /\ \A t \in DOMAIN job : jobItem[t] = ""

\* no count flag, no input: one job with the empty item has run
C4_Witness ==
  /\ LocalNoInput /\ ~ctx.countSet /\ pc = "exit"
  /\ DOMAIN job = {0} /\ job[0] = "done" /\ jobItem[0] = ""

\* C5: the ssh command dispatches exactly count * len(hosts) jobs for every
\* count >= 1, with or without input lines.
C5_RemoteJobCount ==
  (ctx.cmd = "ssh" /\ RunNEntered /\ count >= 1) =>
    /\ N = count * Len(hosts)
    /\ DOMAIN job \subseteq 0..(count * Len(hosts) - 1)

\* C6: in the ssh command without input lines, job i runs against
\* hosts[i div count]; each host gets the count jobs of one contiguous block.
C6_HostsInBlocks ==
  (ctx.cmd = "ssh" /\ RunNEntered /\ count >= 1 /\ Len(input) = 0) =>
    /\ \A t \in DOMAIN job :
         job[t] = "done" =>
           /\ (t \div count) + 1 \in DOMAIN hosts
           /\ jobHost[t] = Normalize(hosts[(t \div count) + 1])
    /\ RunNReturned =>
         \A h \in DOMAIN hosts :
           {t \in DOMAIN job : jobHost[t] = Normalize(hosts[h])}
             = ((h - 1) * count)..(h * count - 1)

\* two hosts, count 2: jobs 0,1 ran on h1, jobs 2,3 on h2
C6_Witness ==
  /\ ctx.cmd = "ssh" /\ pc = "exit" /\ count = 2 /\ Len(hosts) = 2 /\ Len(input) = 0
  /\ DOMAIN job = 0..3
  /\ jobHost[0].name = "h1" /\ jobHost[1].name = "h1"
  /\ jobHost[2].name = "h2" /\ jobHost[3].name = "h2"

\* C7: the ssh command given a readable host list without hosts starts no
\* job and returns an error.
C7_ZeroHostsIsError ==
  (ctx.cmd = "ssh" /\ world.listFile = "ok" /\ world.hostLines = <<>>) =>
    /\ job = NoJobs
    /\ pc = "start" \/ (pc = "exit" /\ ret \notin {"none", "nil"})

\* C11: the command returns the aggregate error, and the process exits with
\* a non-zero status, exactly when a job failed; the error of every failed job
\* is on standard error before the aggregate failure is signalled.
C11_FailureReported ==
  /\ (pc = "exit" /\ RunNEntered) =>
       /\ (ret = "some commands had errors") <=> (Failed # {})
       /\ \A t \in Failed : Occurrences(stderr, JobErr(t)) = 1
  /\ (exitCode \in {0, FailExitCode} /\ RunNEntered) =>
       ((exitCode = FailExitCode) <=> (Failed # {}))
  /\ \A k \in DOMAIN stderr :
       stderr[k] = RuntimeError =>
         /\ k = Len(stderr)
         /\ RunNEntered => \A t \in Failed : \E j \in 1..(k - 1) : stderr[j] = JobErr(t)

\* two jobs failed: both errors, then the runtime error, and exit status 1
C11_Witness ==
  /\ exitCode = FailExitCode /\ Cardinality(Failed) = 2 /\ Cardinality(Failed) < N
  /\ Len(stderr) = 3 /\ stderr[3] = RuntimeError

\* C12: runN calls the executor exactly once for every thread id 0..N-1, and
\* the failure of a job keeps no other job from being started or from running
\* to completion.
C12_EveryJobRunsOnce ==
  /\ \A t \in DOMAIN calls : calls[t] <= 1
  /\ RunNReturned => (DOMAIN calls = 0..(N - 1) /\ \A t \in 0..(N - 1) : calls[t] = 1)
  /\ \A t \in DOMAIN job : job[t] # "killed"
  /\ pc = "crashed" => i = N

ConfigurationError ==
  \/ ctx.cmd = "exec" /\ ctx.nargs = 0
  \/ ctx.cmd = "ssh" /\ ctx.nargs < 2
  \/ ctx.cmd = "ssh" /\ world.listFile \in {"missing", "unreadable"}

\* C13: a run with a missing command, or in ssh mode with a host list file
\* that is missing or cannot be read, returns an error and calls no executor.
C13_ConfigErrorStopsRun ==
  ConfigurationError =>
    /\ job = NoJobs
    /\ pc = "start" \/ (pc = "exit" /\ ret \notin {"none", "nil"})

\* the argv expected for a job of the exec command, argument by argument
ExpectedArg(k, t) ==
  CASE k = 1 -> <<"e">>
    [] k = 2 -> (IF t < Len(input) THEN <<input[t + 1]>> ELSE <<>>)
    [] k = 3 -> <<ToString(t)>>
    [] OTHER -> <<"a">>

\* C15: in the exec command the argv of a job is the template with every
\* argument formatted on its own with the job's thread id and item, and the
\* error list is empty when every process exits cleanly.
C15_LocalArgv ==
  ctx.cmd = "exec" =>
    /\ \A t \in DOMAIN job :
         job[t] = "done" => jobCmd[t] = [k \in 1..ctx.nargs |-> ExpectedArg(k, t)]
    /\ (RunNReturned /\ Failed = {}) => outerErrs = <<>>

\* template [e, %i], input [a, b], no count: argv [e, a] and [e, b], no error
C15_Witness ==
  /\ ctx.cmd = "exec" /\ ctx.nargs = 2 /\ ~ctx.countSet /\ input = <<"a", "b">>
  /\ pc = "exit" /\ DOMAIN job = 0..1
  /\ jobCmd[0] = << <<"e">>, <<"a">> >> /\ jobCmd[1] = << <<"e">>, <<"b">> >>
  /\ outerErrs = <<>> /\ ret = "nil"

\* C16: a running job never waits for another job or for the collector: in
\* every state the channel has room for the result of each running job, so
\* that its send does not block, and no more than N results are ever sent.
C16_NoJobWaits ==
  /\ \A t \in DOMAIN job :
       job[t] = "running" => (pc = "runN" /\ Len(errChan) < ChanCap(N))
  /\ Len(errChan) + recvd <= N

\* the collector has not received anything, all jobs but one have sent
C16_Witness ==
  /\ pc = "runN" /\ N >= 3 /\ recvd = 0 /\ Len(errChan) = N - 1
  /\ \E t \in DOMAIN job : job[t] = "running"

\* C17: once runN is entered it returns, unless an executor call does not
\* return but panics; this includes N = 0.
C17_RunNReturns ==
  (pc = "runN") ~> (pc = "returned" \/ pc = "crashed")

\* runN has returned after collecting from three jobs or more
C17_Witness ==
  /\ pc = "returned" /\ N >= 3 /\ recvd = N /\ errChan = <<>>

\* C19: a job of the ssh command dials its host entry with port 22 when the
\* entry has no port and the entry as it is otherwise; the host list is not
\* changed.
C19_DefaultPort ==
  (ctx.cmd = "ssh" /\ RunNEntered) =>
    /\ hosts = (IF world.listFile = "ok" THEN world.hostLines ELSE <<>>)
    /\ \A t \in DOMAIN job :
         job[t] = "done" =>
           \E h \in DOMAIN hosts :
             /\ jobHost[t].name = hosts[h].name
             /\ jobHost[t].port = IF hosts[h].port = 0 THEN DefaultPort ELSE hosts[h].port

\* C20: for every job started by the ssh command the lookup hosts[tid/count]
\* is defined: count is not zero and tid/count is an index of hosts.
C20_HostLookupDefined ==
  ctx.cmd = "ssh" =>
    \A t \in DOMAIN job : count # 0 /\ (t \div count) < Len(hosts)

(***************************************************************************)
(* Properties of format, checked under FormatSpec                          *)
(***************************************************************************)
F(str) == format(str, ftid, fitem)
Before(k) == SubSeq(fmtstr, 1, k)
After(k) == SubSeq(fmtstr, k + 1, Len(fmtstr))
\* the scanner is in its plain state after the first k code points
Plain(k) == ~FormatLoop(fmtstr, k, ftid, fitem).lastPercent
\* a token "%" c starts after the first k code points
TokenAt(k, c) ==
  /\ k + 2 <= Len(fmtstr)
  /\ Plain(k) /\ fmtstr[k + 1] = "%" /\ fmtstr[k + 2] = c

\* C8: every token %t of the template is replaced by the decimal string of
\* tid and every token %i by the item, which is not scanned again; the text
\* around the token is formatted on its own.
C8_TokensSubstituted ==
  fdone =>
    \A k \in 0..Len(fmtstr) :
      /\ TokenAt(k, "t") => retval = F(Before(k)) \o Sprintfd(ftid) \o F(After(k + 2))
      /\ TokenAt(k, "i") => retval = F(Before(k)) \o fitem \o F(After(k + 2))

\* C9: every %% of the template yields one literal % at its place and the
\* output of the text before it is kept.
C9_PercentEscape ==
  fdone =>
    \A k \in 0..Len(fmtstr) :
      TokenAt(k, "%") => retval = F(Before(k)) \o <<"%">> \o F(After(k + 2))

\* C10: a % followed by a code point other than t, i and % is dropped with
\* that code point; a code point outside a token passes through in place; a
\* template without % is returned as it is.
C10_LenientPassThrough ==
  fdone =>
    /\ \A k \in 0..Len(fmtstr) :
         /\ \A c \in Chars \ {"t", "i", "%"} :
              TokenAt(k, c) => retval = F(Before(k)) \o F(After(k + 2))
         /\ (k + 1 <= Len(fmtstr) /\ Plain(k) /\ fmtstr[k + 1] # "%") =>
              retval = F(Before(k)) \o <<fmtstr[k + 1]>> \o F(After(k + 1))
    /\ (\A k \in DOMAIN fmtstr : fmtstr[k] # "%") => retval = fmtstr

(***************************************************************************)
(* Properties of readLines, checked under ReadSpec                         *)
(***************************************************************************)
\* every line followed by a newline
RECURSIVE Unlines(_)
Unlines(ls) == IF ls = <<>> THEN <<>> ELSE Head(ls) \o <<NL>> \o Unlines(Tail(ls))

\* the file with its last line terminated
Terminated(bytes) ==
  IF bytes = <<>> \/ bytes[Len(bytes)] = NL THEN bytes ELSE Append(bytes, NL)

\* C14: readLines yields one item per line, in order: no item holds a
\* newline and the items, each followed by a newline, spell the file with its
\* last line terminated; so a final newline adds no item, an unterminated last
\* line is an item and blank lines are empty items. The scanner version
\* yields the same items with the blanks around each trimmed.
C14_OneItemPerLine ==
  readDone =>
    /\ \A k \in DOMAIN lines : \A j \in DOMAIN lines[k] : lines[k][j] # NL
    /\ Unlines(lines) = Terminated(content)
    /\ content = <<>> => lines = <<>>
    /\ Len(scanned) = Len(lines)
    /\ \A k \in DOMAIN lines : scanned[k] = TrimSpace(lines[k])

\* "a\n\na\n" read as [a, "", a]
C14_Witness ==
  /\ readDone /\ content = <<"a", NL, NL, "a", NL>>
  /\ lines = << <<"a">>, <<>>, <<"a">> >>
  /\ scanned = lines

(***************************************************************************)
(* Properties of the ssh closure's output, checked under SshSpec           *)
(***************************************************************************)
\* the host assigned to the job, as it is dialled
AssignedHost ==
  LET h == sctx.hosts[sctx.tid + 1]
  IN [h EXCEPT !.port = IF h.port = 0 /\ ~h.v6 THEN DefaultPort ELSE h.port]

\* C18: unless output is suppressed, every line the job writes is a line of
\* the remote output, in order, written as "[host] text" with the job's host
\* when prefixing is not disabled and as the text alone when it is; stdout
\* has been copied in full when the closure waits for the session.
C18_PrefixedOutput ==
  /\ sctx.quiet => (osStdout = <<>> /\ osStderr = <<>>)
  /\ \A k \in DOMAIN osStdout :
       /\ osStdout[k].text = OutText(k)
       /\ osStdout[k].prefix = IF sctx.noPrefix THEN NoHost ELSE AssignedHost
  /\ \A k \in DOMAIN osStderr :
       /\ osStderr[k].text = ErrText(k)
       /\ osStderr[k].prefix = IF sctx.noPrefix THEN NoHost ELSE AssignedHost
  /\ (spc = "wait" /\ ~sctx.quiet) => Len(osStdout) = sctx.nout

\* two hosts or more, prefixing on: the job on h2:2222 has written its lines
C18_Witness ==
  /\ ~sctx.quiet /\ ~sctx.noPrefix /\ Len(sctx.hosts) >= 2 /\ sctx.tid = 1
  /\ spc = "done" /\ sret = Nil
  /\ Len(osStdout) = 2 /\ Len(osStderr) >= 1
  /\ osStdout[1] = [prefix |-> [name |-> "h2", port |-> 2222, v6 |-> FALSE], text |-> "o1"]

(***************************************************************************)
(* Properties of the exec closure's output copy, checked under ExecSpec    *)
(***************************************************************************)
\* the lines the process has written to its stdout and to its stderr
ProcessOut == IF cmd \in {"none", "failed"} THEN 0 ELSE ectx.nout
ProcessErr == IF cmd \in {"none", "failed"} THEN 0 ELSE ectx.nerr

\* the job's result has been handed to the dispatcher
ResultHandedOver == epc \in {"sent", "reported"}

\* C21: in local mode without --quiet, once the job's result has been handed
\* to the dispatcher every line the process wrote to stdout and stderr has
\* been written to os.Stdout and os.Stderr: both copies have reached the end
\* of their stream.
C21_OutputCopiedBeforeResult ==
  (ResultHandedOver /\ ~ectx.quiet /\ ectx.pipesOK) =>
     /\ Len(osStdout) = ProcessOut
     /\ Len(osStderr) = ProcessErr

(***************************************************************************)
(* Properties of the ssh closure's connection, checked under SshSpec       *)
(***************************************************************************)
\* the closure has returned: its result can be sent to the dispatcher
ClosureReturned == spc = "done"

\* C22: when the closure of a remote job has returned, on whichever path
\* (connection failure, session failure, stream setup failure, command
\* failure, success), the connection it dialled and the session on it are
\* no longer open; a session is open only on an open connection, a job that
\* succeeded had a connection, and nothing is open when the process ends.
C22_ConnectionsClosed ==
  /\ ClosureReturned => (client # "open" /\ session # "open")
  /\ session = "open" => client = "open"
  /\ (ClosureReturned /\ sret = Nil) => (client = "closed" /\ session = "closed")
  /\ ~alive => (ClosureReturned /\ client # "open")

\* stream setup (or start) failed without --quiet: the session had been
\* established, no copy was started, and both are closed at the return
C22_Witness ==
  /\ ClosureReturned /\ ~sctx.quiet /\ sret = JobErr(sctx.tid)
  /\ client = "closed" /\ session = "closed" /\ copier = "none"

====
